---- MODULE Spec2Model ----
(***************************************************************************)
(* A model of sys/meson.py, the meson build driver of radare2: the path    *)
(* template registry (PATH_FMT, R2_PATH) and its str.format resolution,    *)
(* the tool invocations (meson, ninja, msbuild), the XP toolset patcher    *)
(* (xp_compat), the Windows distribution manifest (win_dist,               *)
(* win_dist_libr2) and the drivers build(), install() and main().          *)
(*                                                                         *)
(* Strings the program takes apart (templates, option values, toolset      *)
(* identifiers, file names matched by patterns) are sequences of tokens,   *)
(* so that format, normpath, replace and fnmatch are computed, not assumed.*)
(***************************************************************************)
EXTENDS Naturals, Sequences, FiniteSets, TLC

----------------------------------------------------------------------------
(* Generic helpers on sequences.                                           *)

\* all sequences over S of length at most n
RECURSIVE SeqsUpTo(_, _)
SeqsUpTo(S, n) ==
  IF n = 0 THEN {<<>>}
  ELSE LET shorter == SeqsUpTo(S, n - 1)
       IN  shorter \cup {Append(s, x) : s \in {t \in shorter : Len(t) = n - 1}, x \in S}

IsPrefix(p, s) == Len(p) <= Len(s) /\ SubSeq(s, 1, Len(p)) = p

EndsWith(s, suf) ==
  Len(suf) <= Len(s) /\ SubSeq(s, Len(s) - Len(suf) + 1, Len(s)) = suf

----------------------------------------------------------------------------
(* str.format(PATH_FMT) on token sequences.  "{" and "}" are the brace   *)
(* characters, every other token is literal text or, between braces, a     *)
(* field name.  The result is [ok, s]: ok = FALSE is the exception format   *)
(* raises (KeyError, IndexError, ValueError), s the text built.            *)

LB == "{"
RB == "}"

FmtErr == [ok |-> FALSE, s |-> <<>>]

RECURSIVE FormatFrom(_, _, _, _)
FormatFrom(s, fmt, i, out) ==
  IF i > Len(s) THEN [ok |-> TRUE, s |-> out]
  ELSE IF s[i] = LB THEN
         IF i + 1 <= Len(s) /\ s[i + 1] = LB
           THEN FormatFrom(s, fmt, i + 2, Append(out, LB))        \* "{{" -> "{"
         ELSE IF i + 2 <= Len(s) /\ s[i + 1] # RB /\ s[i + 2] = RB
           THEN IF s[i + 1] \in DOMAIN fmt
                  THEN FormatFrom(s, fmt, i + 3, out \o fmt[s[i + 1]])
                  ELSE FmtErr                                     \* KeyError
         ELSE FmtErr            \* "{}" IndexError, unclosed field ValueError
       ELSE IF s[i] = RB THEN
         IF i + 1 <= Len(s) /\ s[i + 1] = RB
           THEN FormatFrom(s, fmt, i + 2, Append(out, RB))        \* "}}" -> "}"
           ELSE FmtErr                          \* single "}" : ValueError
       ELSE FormatFrom(s, fmt, i + 1, Append(out, s[i]))

\* one substitution pass: s.format(fmt)
Format(s, fmt) == FormatFrom(s, fmt, 1, <<>>)

\* dst.format(PATH_FMT).format(PATH_FMT), as copytree/move/copy/makedirs do
Format2(s, fmt) ==
  LET r == Format(s, fmt) IN IF r.ok THEN Format(r.s, fmt) ELSE FmtErr

----------------------------------------------------------------------------
(* Program state.                                                          *)

VARIABLES
  pc,        \* position of the run in main() / build() / win_dist()
  args,      \* the parsed command line (argparse namespace)
  plat,      \* os.name: "nt" or "posix"
  exited,    \* the process has terminated
  exitCode,  \* its exit status (1 also for an unhandled exception)
  trace,     \* subprocesses spawned and filesystem mutations, in order
  dirs,      \* directories that exist
  files,     \* files that exist
  proj,      \* contents of the generated .vcxproj files of the build dir
  R2_PATH,   \* the install sub-path of each category
  PATH_FMT,  \* the placeholder registry used by format
  env,       \* CFLAGS / LDFLAGS of the process environment
  tmpl,      \* resolver: the template and the result of each pass so far
  tree,      \* copytree: the source tree, the exclude patterns, the copy
  optIdx,    \* main(): index of the --options entry processed next, 0
             \* before the loop is reached
  step,      \* win_dist(): index of the manifest operation executed next, 0
             \* outside win_dist
  run,       \* number of the current run of the script on this machine
  hist       \* what earlier steps and runs did (history, for the claims)

vars == <<pc, args, plat, exited, exitCode, trace, dirs, files, proj,
          R2_PATH, PATH_FMT, env, tmpl, tree, optIdx, step, run, hist>>

----------------------------------------------------------------------------
(* The placeholder registry.                                               *)

SEP == "\\"

\* R2_PATH as the module sets it: the install sub-path of each category
DefaultR2Path ==
  [k \in {"R2_LIBDIR", "R2_INCDIR", "R2_DATDIR", "R2_WWWROOT", "R2_SDB",
          "R2_ZIGNS", "R2_THEMES", "R2_FORTUNES", "R2_FLAGS", "R2_HUD"} |->
     CASE k = "R2_LIBDIR"   -> <<"lib">>
       [] k = "R2_INCDIR"   -> <<"include">>
       [] k = "R2_DATDIR"   -> <<"share">>
       [] k = "R2_WWWROOT"  -> <<LB, "R2_DATDIR", RB, SEP, "www">>
       [] k = "R2_SDB"      -> <<LB, "R2_DATDIR", RB>>
       [] k = "R2_ZIGNS"    -> <<LB, "R2_DATDIR", RB, SEP, "zigns">>
       [] k = "R2_THEMES"   -> <<LB, "R2_DATDIR", RB, SEP, "cons">>
       [] k = "R2_FORTUNES" -> <<LB, "R2_DATDIR", RB, SEP, "doc">>
       [] k = "R2_FLAGS"    -> <<LB, "R2_DATDIR", RB, SEP, "flag">>
       [] k = "R2_HUD"      -> <<LB, "R2_DATDIR", RB, SEP, "hud">>]

\* d1.update(d2): the entries of d2 added to, or replacing, those of d1
Update(d1, d2) ==
  [k \in DOMAIN d1 \cup DOMAIN d2 |-> IF k \in DOMAIN d2 THEN d2[k] ELSE d1[k]]

\* os.path.abspath of the directory above sys/, and line 2 of configure.acr
ROOT == <<"ROOT">>
R2_VERSION == <<"VERSION">>

\* PATH_FMT as set_global_variables leaves it
InitialPathFmt == [k \in {"ROOT", "R2_VERSION"} |->
                    IF k = "ROOT" THEN ROOT ELSE R2_VERSION]

----------------------------------------------------------------------------
(* Paths on the Windows target.  A path is the sequence of its segments,   *)
(* each segment the tokens between two separators.                         *)

\* the separators of os.path: both slashes on nt, "/" alone on posix
Seps(os) == IF os = "nt" THEN {SEP, "/"} ELSE {"/"}

RECURSIVE SplitFrom(_, _, _, _, _)
SplitFrom(s, seps, i, cur, out) ==
  IF i > Len(s) THEN (IF cur = <<>> THEN out ELSE Append(out, cur))
  ELSE IF s[i] \in seps
         THEN SplitFrom(s, seps, i + 1, <<>>,
                        IF cur = <<>> THEN out ELSE Append(out, cur))
         ELSE SplitFrom(s, seps, i + 1, Append(cur, s[i]), out)

Split(s, os) == SplitFrom(s, Seps(os), 1, <<>>, <<>>)

\* resolve "." and ".." as the filesystem does when the path is looked up
RECURSIVE Collapse(_, _)
Collapse(segs, out) ==
  IF segs = <<>> THEN out
  ELSE IF Head(segs) = <<".">> THEN Collapse(Tail(segs), out)
  ELSE IF Head(segs) = <<"..">> /\ out # <<>> /\ out[Len(out)] # <<"..">>
         THEN Collapse(Tail(segs), SubSeq(out, 1, Len(out) - 1))
  ELSE Collapse(Tail(segs), Append(out, Head(segs)))

\* the path a string names on the Windows target
ToPath(s) == Collapse(Split(s, "nt"), <<>>)

Parent(p) == SubSeq(p, 1, Len(p) - 1)

\* the path and every directory above it
Ancestors(p) == {SubSeq(p, 1, n) : n \in 1..Len(p)}

\* os.path.join(ROOT, args.dir)
BuildDirStr(dir) == ROOT \o <<SEP>> \o dir

\* segments joined by the separator of the platform
RECURSIVE Join(_, _)
Join(segs, sep) ==
  IF segs = <<>> THEN <<>>
  ELSE IF Len(segs) = 1 THEN Head(segs)
  ELSE Head(segs) \o <<sep>> \o Join(Tail(segs), sep)

\* os.path.isabs (ntpath as in Python up to 3.12: a leading slash is enough)
IsAbs(v, os) ==
  IF os = "nt"
    THEN \/ (v # <<>> /\ v[1] \in Seps("nt"))
         \/ (Len(v) >= 2 /\ v[1] = "C:" /\ v[2] \in Seps("nt"))
    ELSE v # <<>> /\ v[1] = "/"

\* os.path.normpath of a relative path
NormPath(v, os) ==
  LET segs == Collapse(Split(v, os), <<>>)
  IN  IF segs = <<>> THEN <<".">>
      ELSE Join(segs, IF os = "nt" THEN SEP ELSE "/")

----------------------------------------------------------------------------
(* shutil.ignore_patterns and shutil.copytree.  A file name is the         *)
(* sequence of its characters; a source tree is the set of its entries,    *)
(* each [path, kind] with path the names from the root of the tree.        *)

\* os.path.normcase of a character on nt (the upper-case letters in use)
Lower(c) == IF c = "M" THEN "m" ELSE c

NormCase(name, os) ==
  IF os = "nt" THEN [i \in 1..Len(name) |-> Lower(name[i])] ELSE name

\* fnmatch.fnmatchcase: "*" any run of characters, "?" any one character
RECURSIVE FnMatch(_, _)
FnMatch(name, pat) ==
  IF pat = <<>> THEN name = <<>>
  ELSE IF Head(pat) = "*"
         THEN FnMatch(name, Tail(pat)) \/ (name # <<>> /\ FnMatch(Tail(name), pat))
  ELSE IF Head(pat) = "?"
         THEN name # <<>> /\ FnMatch(Tail(name), Tail(pat))
  ELSE name # <<>> /\ Head(name) = Head(pat) /\ FnMatch(Tail(name), Tail(pat))

\* the name is in the set ignore_patterns(*exclude) returns for its directory
Ignored(name, exclude, os) ==
  \E pat \in exclude : FnMatch(NormCase(name, os), NormCase(pat, os))

Children(t, dir) ==
  {e \in t : Len(e.path) = Len(dir) + 1 /\ IsPrefix(dir, e.path)}

\* the entries shutil.copytree copies from directory dir of the source
\* tree: every listed name the ignore callable does not return, and, for a
\* directory among them, what the recursive call copies from it
RECURSIVE CopiedFrom(_, _, _, _)
CopiedFrom(t, dir, exclude, os) ==
  LET kept == {e \in Children(t, dir) :
                 ~Ignored(e.path[Len(e.path)], exclude, os)}
  IN  kept \cup UNION {CopiedFrom(t, e.path, exclude, os) :
                         e \in {k \in kept : k.kind = "dir"}}

\* a copy that filters the names of the top directory only
CopiedTopFiltered(t, exclude, os) ==
  {e \in t : ~Ignored(e.path[1], exclude, os)}

\* copytree passes ignore=None when exclude is empty
CopiedEntries(t, exclude, os) == CopiedFrom(t, <<>>, exclude, os)

----------------------------------------------------------------------------
(* The filesystem primitives of the distribution assembler.  Each takes    *)
(* the directories and files that exist and returns [ok, dirs, files];     *)
(* ok = FALSE is the exception the call raises, which ends the run.        *)

Failed(d, f) == [ok |-> FALSE, dirs |-> d, files |-> f]
Done(d, f) == [ok |-> TRUE, dirs |-> d, files |-> f]

\* the path can be created: it is not there and nothing above it is a file
Creatable(p, d, f) ==
  p # <<>> /\ p \notin d /\ Ancestors(p) \cap f = {}

\* the directory a file written at path p lands in exists
ParentExists(p, d) == p # <<>> /\ (Len(p) = 1 \/ Parent(p) \in d)

\* makedirs(path): os.makedirs of the twice-formatted path
MakeDirs(path, d, f, fmt) ==
  LET r == Format2(path, fmt)
      p == ToPath(r.s)
  IN  IF ~r.ok \/ ~Creatable(p, d, f) THEN Failed(d, f)
      ELSE Done(d \cup Ancestors(p), f)

\* copy(src, dst): shutil.copy2 of every file the glob matches.  matched
\* says whether the glob yields a file; files copied into a directory are
\* not recorded (no later operation names them), a file copied to a path
\* that is no directory is.
CopyGlob(src, dst, d, f, fmt, matched) ==
  LET s1 == Format(src, fmt)
      r  == Format2(dst, fmt)
      p  == ToPath(r.s)
  IN  IF ~s1.ok \/ ~r.ok THEN Failed(d, f)
      ELSE IF ~matched \/ p \in d THEN Done(d, f)
      ELSE IF ParentExists(p, d) THEN Done(d, f \cup {p})
      ELSE Failed(d, f)

\* copytree(src, dst, exclude): shutil.copytree of source tree t
CopyTree(src, dst, exclude, d, f, fmt, t, os) ==
  LET s1 == Format(src, fmt)
      r  == Format2(dst, fmt)
      p  == ToPath(r.s)
      c  == CopiedEntries(t, exclude, os)
  IN  IF ~s1.ok \/ ~r.ok \/ ~Creatable(p, d, f) THEN Failed(d, f)
      ELSE Done(d \cup Ancestors(p) \cup {p \o e.path : e \in {x \in c : x.kind = "dir"}},
                f \cup {p \o e.path : e \in {x \in c : x.kind = "file"}})

\* open(fname, 'w') and write: the name is used as given, not formatted
WriteFile(fname, d, f) ==
  LET p == ToPath(fname)
  IN  IF p \notin d /\ ParentExists(p, d) THEN Done(d, f \cup {p}) ELSE Failed(d, f)

----------------------------------------------------------------------------
(* The Windows distribution manifest: the calls of win_dist and            *)
(* win_dist_libr2 in order, as data.                                       *)

P(name) == <<LB, name, RB>>
\* template "{a}" followed by backslash-separated literal names
T(a, rest) == P(a) \o <<SEP>> \o rest
\* template "{a}" backslash "{b}"
TT(a, b) == P(a) \o <<SEP>> \o P(b)
TTR(a, b, rest) == TT(a, b) \o <<SEP>> \o rest

\* names that shutil matches against the exclude patterns, by character
Makefile == <<"M", "a", "k", "e", "f", "i", "l", "e">>
MesonBuild == <<"m", "e", "s", "o", "n", ".", "b", "u", "i", "l", "d">>
Dll == <<"d", "l", "l">>

OpMakeDirs(dst) ==
  [op |-> "makedirs", src |-> <<>>, dst |-> dst, exclude |-> {}]
OpCopy(src, dst) ==
  [op |-> "copy", src |-> src, dst |-> dst, exclude |-> {}]
OpCopyTree(src, dst, exclude) ==
  [op |-> "copytree", src |-> src, dst |-> dst, exclude |-> exclude]
OpWrite(fname) ==
  [op |-> "write", src |-> <<>>, dst |-> fname, exclude |-> {}]

\* the body of win_dist before it calls win_dist_libr2
WinDistOps(install, shared) ==
  << OpMakeDirs(P("DIST")),
     OpMakeDirs(T("DIST", <<"bin">>)),
     OpCopy(T("BUILDDIR", <<"binr", SEP, "*", SEP, "*.exe">>), T("DIST", <<"bin">>)),
     OpWrite(install \o <<SEP, "bin", SEP, "r2.bat">>),
     OpCopy(T("BUILDDIR", <<"libr", SEP, "*", SEP, "*.dll">>), T("DIST", <<"bin">>)),
     OpMakeDirs(TT("DIST", "R2_LIBDIR")),
     IF shared
       THEN OpCopy(T("BUILDDIR", <<"libr", SEP, "*", SEP, "*.lib">>), TT("DIST", "R2_LIBDIR"))
       ELSE OpCopy(T("BUILDDIR", <<"libr", SEP, "*", SEP, "*.a">>), TT("DIST", "R2_LIBDIR")) >>

\* the body of win_dist_libr2
Libr2Ops(install_webui) ==
  (IF install_webui
     THEN << OpCopyTree(T("ROOT", <<"shlr", SEP, "www">>), TT("DIST", "R2_WWWROOT"), {}) >>
     ELSE << >>) \o
  << OpCopyTree(T("ROOT", <<"libr", SEP, "magic", SEP, "d", SEP, "default">>),
                TTR("DIST", "R2_SDB", <<"magic">>), {}),
     OpMakeDirs(TTR("DIST", "R2_SDB", <<"syscall">>)),
     OpCopy(T("BUILDDIR", <<"libr", SEP, "syscall", SEP, "d", SEP, "*.sdb">>),
            TTR("DIST", "R2_SDB", <<"syscall">>)),
     OpMakeDirs(TTR("DIST", "R2_SDB", <<"fcnsign">>)),
     OpCopy(T("BUILDDIR", <<"libr", SEP, "anal", SEP, "d", SEP, "*.sdb">>),
            TTR("DIST", "R2_SDB", <<"fcnsign">>)),
     OpMakeDirs(TTR("DIST", "R2_SDB", <<"opcodes">>)),
     OpCopy(T("BUILDDIR", <<"libr", SEP, "asm", SEP, "d", SEP, "*.sdb">>),
            TTR("DIST", "R2_SDB", <<"opcodes">>)),
     OpMakeDirs(TTR("DIST", "R2_INCDIR", <<"sdb">>)),
     OpMakeDirs(TTR("DIST", "R2_INCDIR", <<"r_util">>)),
     OpMakeDirs(TTR("DIST", "R2_INCDIR", <<"r_crypto">>)),
     OpCopy(T("ROOT", <<"libr", SEP, "include", SEP, "*.h">>), TT("DIST", "R2_INCDIR")),
     OpCopy(T("BUILDDIR", <<"r_version.h">>), TT("DIST", "R2_INCDIR")),
     OpCopy(T("BUILDDIR", <<"r_userconf.h">>), TT("DIST", "R2_INCDIR")),
     OpCopy(T("ROOT", <<"libr", SEP, "include", SEP, "sdb", SEP, "*.h">>),
            TTR("DIST", "R2_INCDIR", <<"sdb">>)),
     OpCopy(T("ROOT", <<"libr", SEP, "include", SEP, "r_util", SEP, "*.h">>),
            TTR("DIST", "R2_INCDIR", <<"r_util">>)),
     OpCopy(T("ROOT", <<"libr", SEP, "include", SEP, "r_crypto", SEP, "*.h">>),
            TTR("DIST", "R2_INCDIR", <<"r_crypto">>)),
     OpMakeDirs(TT("DIST", "R2_FORTUNES")),
     OpCopy(T("ROOT", <<"doc", SEP, "fortunes.*">>), TT("DIST", "R2_FORTUNES")),
     OpCopyTree(T("ROOT", <<"libr", SEP, "bin", SEP, "d">>),
                TTR("DIST", "R2_SDB", <<"format">>), {Makefile, MesonBuild, Dll}),
     OpMakeDirs(TTR("DIST", "R2_SDB", <<"format", SEP>> \o Dll)),
     OpCopy(T("BUILDDIR", <<"libr", SEP, "bin", SEP, "d", SEP, "*.sdb">>),
            TTR("DIST", "R2_SDB", <<"format", SEP>> \o Dll)),
     OpCopyTree(T("ROOT", <<"libr", SEP, "cons", SEP, "d">>),
                TT("DIST", "R2_THEMES"), {Makefile, MesonBuild}),
     OpMakeDirs(TT("DIST", "R2_FLAGS")),
     OpCopy(T("BUILDDIR", <<"libr", SEP, "flag", SEP, "d", SEP, "*.r2">>),
            TT("DIST", "R2_FLAGS")),
     OpMakeDirs(TT("DIST", "R2_HUD")),
     OpCopy(T("ROOT", <<"doc", SEP, "hud">>), TTR("DIST", "R2_HUD", <<"main">>)) >>

\* the install roots explored on nt: a plain name, and a name with braces
InstallRoots == {<<"inst">>, <<"inst", LB, LB>>}

\* win_dist(args): its own calls, then those of win_dist_libr2
ManifestTable ==
  [install \in InstallRoots, shared \in BOOLEAN, webui \in BOOLEAN |->
     WinDistOps(install, shared) \o Libr2Ops(webui)]

Manifest(install, shared, webui) == ManifestTable[install, shared, webui]

\* PATH_FMT as win_dist sets it before the first call
DistPathFmt(fmt, install, dir) ==
  Update(fmt, [k \in {"DIST", "BUILDDIR"} |->
                 IF k = "DIST" THEN install ELSE BuildDirStr(dir)])

\* one manifest operation against the filesystem
ExecOp(o, d, f, fmt, matched, t) ==
  CASE o.op = "makedirs" -> MakeDirs(o.dst, d, f, fmt)
    [] o.op = "copy"     -> CopyGlob(o.src, o.dst, d, f, fmt, matched)
    [] o.op = "copytree" -> CopyTree(o.src, o.dst, o.exclude, d, f, fmt, t, "nt")
    [] o.op = "write"    -> WriteFile(o.dst, d, f)

----------------------------------------------------------------------------
(* xp_compat.  A project file is [present, intact, id]: intact says the    *)
(* text still holds its <PlatformToolset> element, id is the identifier    *)
(* inside it, a sequence of characters.  proj maps the file names under    *)
(* the build directory to their contents; "REGEN" is REGEN.vcxproj.        *)

XpSuffix == <<"_", "x", "p">>

\* str.replace(old, new): every non-overlapping occurrence, left to right
RECURSIVE Replace(_, _, _)
Replace(s, old, new) ==
  IF old = <<>>
    THEN (IF s = <<>> THEN new
          ELSE new \o <<Head(s)>> \o Replace(Tail(s), old, new))
  ELSE IF Len(s) < Len(old) THEN s
  ELSE IF IsPrefix(old, s)
    THEN new \o Replace(SubSeq(s, Len(old) + 1, Len(s)), old, new)
  ELSE <<Head(s)>> \o Replace(Tail(s), old, new)

\* c.replace(version, newversion) on the text of one project file: an empty
\* version puts the new text between all characters, the element's included
PatchFile(c, version, newversion) ==
  IF ~c.present THEN c
  ELSE [present |-> TRUE,
        intact  |-> c.intact /\ version # <<>>,
        id      |-> Replace(c.id, version, newversion)]

\* a patcher that never finds the suffix
NeverXp(version) == FALSE

\* version.endswith('_xp')
AlreadyXp(version) == EndsWith(version, XpSuffix)

\* xp_compat(builddir) on the project files pr.  outcome: "crash" (REGEN
\* missing, or re.search finds no element), "skipped", or "patched"
XpCompat(pr) ==
  LET regen == pr["REGEN"]
  IN  IF ~regen.present \/ ~regen.intact
        THEN [outcome |-> "crash", proj |-> pr]
      ELSE IF AlreadyXp(regen.id)
        THEN [outcome |-> "skipped", proj |-> pr]
      ELSE [outcome |-> "patched",
            proj |-> [n \in DOMAIN pr |->
                        PatchFile(pr[n], regen.id, regen.id \o XpSuffix)]]

----------------------------------------------------------------------------
(* The command line.                                                       *)

BACKENDS == {"ninja", "vs2015", "vs2017", "vs2019"}

\* the directory --dir names by default
BUILDDIR == <<"build">>

\* longest --options list explored where the option loop is the subject
MaxOptions == 2

\* str.upper() of the option keys in use
Upper(key) ==
  CASE key = "r2_libdir" -> "R2_LIBDIR"
    [] key = "r2_datdir" -> "R2_DATDIR"
    [] key = "foo"       -> "FOO"
    [] OTHER             -> key

\* --options entries: one without "=", and KEY=VALUE with keys in either
\* case, known or not, and values relative (to be normalised) or absolute
OptionKeys == {"r2_libdir", "R2_DATDIR", "foo"}
OptionValues == {<<"custom", "/", ".", "/", "lib">>, <<"/", "abs">>}
NoEquals == [hasEq |-> FALSE, key |-> "", value |-> <<>>]
OptionEntries ==
  {NoEquals} \cup {[hasEq |-> TRUE, key |-> k, value |-> v] :
                     k \in OptionKeys, v \in OptionValues}

\* the values of --install: absent (None, or False on posix) or given
NoInstall == <<>>
InstallArgs(os) ==
  IF os = "nt" THEN {NoInstall} \cup InstallRoots
  ELSE {NoInstall, <<"True">>}

NoPrefix == <<>>

\* the namespace argparse returns when only the flags in `given` vary
ArgsRecord(alias, asan, project, release, backend, shared, local, prefix, xp, pull, uninstall, symstall, webui, install, options) ==
  [alias |-> alias, asan |-> asan, project |-> project, release |-> release,
   backend |-> backend, shared |-> shared, local |-> local, prefix |-> prefix,
   dir |-> BUILDDIR, xp |-> xp, pull |-> pull, uninstall |-> uninstall,
   symstall |-> symstall, webui |-> webui, install |-> install,
   options |-> options]

----------------------------------------------------------------------------
(* Events of a run, the process exit, and the environment's answers.       *)

NoCmd == [prefix |-> <<>>, backend |-> "", release |-> FALSE,
          library |-> "", options |-> <<>>]

\* a step of the run whose result the script does not look at
Event(name) == [ev |-> name, cmd |-> NoCmd, ret |-> 0]
\* subprocess.call(command) and the status it returned
ToolEvent(name, cmd, ret) == [ev |-> name, cmd |-> cmd, ret |-> ret]

\* options = ['-D%s' % x for x in args.options] + use_webui + local
BuildOptions(a) ==
  a.options
    \o (IF a.webui THEN <<[hasEq |-> TRUE, key |-> "use_webui", value |-> <<"true">>]>>
        ELSE <<>>)
    \o (IF a.local THEN <<[hasEq |-> TRUE, key |-> "local", value |-> <<"true">>]>>
        ELSE <<>>)

\* the command line meson() builds
MesonCommand(prefix, backend, release, shared, options) ==
  [prefix |-> prefix, backend |-> backend, release |-> release,
   library |-> IF shared THEN "shared" ELSE "static", options |-> options]

\* exit statuses a subprocess may return: 0 and one non-zero value
ExitStatuses == {0, 1}

\* the names of the events that are subprocesses
Subprocesses == {"git pull", "meson", "ninja", "msbuild",
                 "make uninstall", "make symstall"}
\* the names of the events that change the filesystem
Mutations == {"git pull", "meson", "ninja", "msbuild", "xp_compat",
              "make uninstall", "make symstall", "win_dist"}

Events(tr) == {tr[i].ev : i \in 1..Len(tr)}
Count(tr, name) == Cardinality({i \in 1..Len(tr) : tr[i].ev = name})

BuildDirPath == ToPath(BuildDirStr(BUILDDIR))

AbsentFile == [present |-> FALSE, intact |-> FALSE, id |-> <<>>]
ProjectFile(id) == [present |-> TRUE, intact |-> TRUE, id |-> id]
NoProjects == [n \in {"REGEN", "radare2"} |-> AbsentFile]

\* what a successful meson leaves in the build directory: project files
\* with one toolset for the Visual Studio backends, none for ninja
Generated(backend) ==
  IF backend = "ninja" THEN {NoProjects}
  ELSE {[n \in {"REGEN", "radare2"} |-> ProjectFile(<<"v">>)]}

\* what a build directory found at start may hold: no project files, those
\* of an unpatched or patched Visual Studio configuration, or a REGEN
\* regenerated beside a project already patched
FoundProjects ==
  {NoProjects,
   [n \in {"REGEN", "radare2"} |-> ProjectFile(<<"v">>)],
   [n \in {"REGEN", "radare2"} |-> ProjectFile(<<"v">> \o XpSuffix)],
   [n \in {"REGEN", "radare2"} |->
      IF n = "REGEN" THEN ProjectFile(<<"v">>) ELSE ProjectFile(<<"v">> \o XpSuffix)]}

\* history: build() has started and whether the build directory existed
\* then; meson returned 0 in this run, or in an earlier run; the options of
\* the previous run; the invocations of xp_compat; the directories that
\* existed when win_dist started
NoHist == [started |-> FALSE, existed |-> FALSE, mesonOk |-> FALSE,
           configuredBefore |-> FALSE, prevOptions |-> <<>>,
           xp |-> <<>>, dirs0 |-> {}]

NoTmpl == [orig |-> <<>>, res |-> <<>>]
NoTree == [src |-> {}, exclude |-> {}, dst |-> {}, copied |-> FALSE]
NoEnv == [CFLAGS |-> <<>>, LDFLAGS |-> <<>>]

\* sys.exit(code), or an exception nobody catches (status 1)
Exit(code) == exited' = TRUE /\ exitCode' = code /\ pc' = "exit"

----------------------------------------------------------------------------
(* build(args).                                                            *)

\* os.path.exists(r2_builddir)
BuildDirExists(d, f) == BuildDirPath \in d \cup f

\* a build() that configures whatever it finds on disk
ConfigureAlways(d, f) == TRUE

\* build() invokes meson: the build directory does not exist
NeedsConfigure(d, f) == ~BuildDirExists(d, f)

\* where build() goes once the patcher has returned
AfterXp(a) == IF ~a.project THEN "msbuild" ELSE "built"

\* a dispatch that runs the patcher for vs2019 as well
AfterConfigureAnyVs(a) ==
  IF a.backend # "ninja"
    THEN (IF a.xp THEN "xp_compat" ELSE AfterXp(a))
    ELSE "ninja"

\* where build() goes after the configure step
AfterConfigure(a) ==
  IF a.backend # "ninja"
    THEN (IF a.backend # "vs2019" /\ a.xp THEN "xp_compat" ELSE AfterXp(a))
    ELSE "ninja"

\* a wrapper that does not look at the exit status
StatusIgnored(ret) == FALSE

\* what a tool's exit status does to the run: sys.exit(1) unless it is 0
ToolFailed(ret) == ret # 0

\* build(): the build directory is missing, meson() runs
Configure ==
  /\ pc = "build" /\ ~exited
  /\ NeedsConfigure(dirs, files)
  /\ \E ret \in ExitStatuses, made \in BOOLEAN, g \in Generated(args.backend) :
       /\ trace' = Append(trace,
             ToolEvent("meson",
                       MesonCommand(args.prefix, args.backend, args.release,
                                    args.shared, BuildOptions(args)), ret))
       /\ hist' = [hist EXCEPT !.started = TRUE,
                               !.existed = BuildDirExists(dirs, files),
                               !.mesonOk = (ret = 0)]
       /\ IF ToolFailed(ret)
            THEN /\ Exit(1)
                 /\ dirs' = IF made THEN dirs \cup Ancestors(BuildDirPath) ELSE dirs
                 /\ proj' = proj
            ELSE /\ pc' = AfterConfigure(args)
                 /\ dirs' = dirs \cup Ancestors(BuildDirPath)
                 /\ proj' = g
                 /\ UNCHANGED <<exited, exitCode>>
  /\ UNCHANGED <<args, plat, files, R2_PATH, PATH_FMT, env, tmpl, tree,
                 optIdx, step, run>>

\* build(): the build directory exists, it is used as it is
ReuseBuildDir ==
  /\ pc = "build" /\ ~exited
  /\ ~NeedsConfigure(dirs, files)
  /\ pc' = AfterConfigure(args)
  /\ hist' = [hist EXCEPT !.started = TRUE,
                          !.existed = BuildDirExists(dirs, files)]
  /\ UNCHANGED <<args, plat, exited, exitCode, trace, dirs, files, proj,
                 R2_PATH, PATH_FMT, env, tmpl, tree, optIdx, step, run>>

\* build(): xp_compat(r2_builddir)
RunXpCompat ==
  /\ pc = "xp_compat" /\ ~exited
  /\ LET r == XpCompat(proj)
     IN  /\ trace' = Append(trace, Event("xp_compat"))
         /\ proj' = r.proj
         /\ hist' = [hist EXCEPT !.xp = Append(@, [before |-> proj,
                                                  outcome |-> r.outcome,
                                                  after |-> r.proj])]
         /\ IF r.outcome = "crash"
              THEN Exit(1)
              ELSE pc' = AfterXp(args) /\ UNCHANGED <<exited, exitCode>>
  /\ UNCHANGED <<args, plat, dirs, files, R2_PATH, PATH_FMT, env, tmpl, tree,
                 optIdx, step, run>>

\* build(): msbuild(project, '/m') on radare2.sln
RunMsbuild ==
  /\ pc = "msbuild" /\ ~exited
  /\ \E ret \in ExitStatuses :
       /\ trace' = Append(trace, ToolEvent("msbuild", NoCmd, ret))
       /\ IF ToolFailed(ret) THEN Exit(1)
          ELSE pc' = "built" /\ UNCHANGED <<exited, exitCode>>
  /\ UNCHANGED <<args, plat, dirs, files, proj, R2_PATH, PATH_FMT, env, tmpl,
                 tree, optIdx, step, run, hist>>

\* build(): ninja(r2_builddir)
RunNinja ==
  /\ pc = "ninja" /\ ~exited
  /\ \E ret \in ExitStatuses :
       /\ trace' = Append(trace, ToolEvent("ninja", NoCmd, ret))
       /\ IF ToolFailed(ret) THEN Exit(1)
          ELSE pc' = "built" /\ UNCHANGED <<exited, exitCode>>
  /\ UNCHANGED <<args, plat, dirs, files, proj, R2_PATH, PATH_FMT, env, tmpl,
                 tree, optIdx, step, run, hist>>

----------------------------------------------------------------------------
(* main().                                                                 *)

\* os.uname().sysname where os.uname exists
SysNames == {"OpenBSD", "Darwin", "Linux"}

\* main(): --alias, then --asan
Startup ==
  /\ pc = "main" /\ ~exited
  /\ IF args.alias THEN Exit(0) /\ env' = env
     ELSE IF args.asan = <<>> THEN
       pc' = "check" /\ UNCHANGED <<exited, exitCode, env>>
     ELSE IF plat = "nt" THEN
       Exit(1) /\ env' = env              \* os.uname: AttributeError on nt
     ELSE \E sysname \in SysNames :
       IF sysname = "OpenBSD" THEN Exit(1) /\ env' = env
       ELSE /\ env' = [CFLAGS  |-> env.CFLAGS \o <<" -fsanitize=">> \o args.asan,
                       LDFLAGS |-> IF sysname # "Darwin"
                                     THEN env.LDFLAGS \o <<" -fsanitize=">> \o args.asan
                                     ELSE env.LDFLAGS]
            /\ pc' = "check" /\ UNCHANGED <<exited, exitCode>>
  /\ UNCHANGED <<args, plat, trace, dirs, files, proj, R2_PATH, PATH_FMT,
                 tmpl, tree, optIdx, step, run, hist>>

\* `x in 'name'` for a backend x: of the --backend choices only 'name'
\* itself is a substring of 'name'
InStr(x, name) == x = name

\* the flag combination main() refuses, if any
BadFlags(a) ==
  \/ (a.project /\ a.backend = "ninja")
  \/ (a.xp /\ InStr(a.backend, "ninja"))
  \/ (a.xp /\ InStr(a.backend, "vs2019"))

\* os.name == 'nt' and args.install and os.path.exists(args.install)
InstallExists(a, os, d, f) ==
  os = "nt" /\ a.install # NoInstall /\ ToPath(a.install) \in d \cup f

\* the trace once `if args.pull: os.system('git pull')` has run
AfterPull(a, tr) == IF a.pull THEN Append(tr, Event("git pull")) ELSE tr

\* main(): "Check arguments", down to the default of --prefix
CheckArguments ==
  /\ pc = "check" /\ ~exited
  /\ trace' = AfterPull(args, trace)
  /\ IF BadFlags(args) \/ InstallExists(args, plat, dirs, files)
       THEN Exit(1) /\ UNCHANGED <<args, optIdx>>
       ELSE /\ args' = IF plat = "nt" /\ args.prefix = NoPrefix
                         THEN [args EXCEPT !.prefix =
                                 BuildDirStr(args.dir) \o <<SEP, "priv_install_dir">>]
                         ELSE args
            /\ pc' = "options" /\ optIdx' = 1
            /\ UNCHANGED <<exited, exitCode>>
  /\ UNCHANGED <<plat, dirs, files, proj, R2_PATH, PATH_FMT, env, tmpl, tree,
                 step, run, hist>>

\* an option loop that compares the key as typed
OptionEffectCaseSensitive(o, r2, os) ==
  IF ~o.hasEq THEN [exit |-> TRUE, r2 |-> r2]
  ELSE IF o.key \notin DOMAIN r2 THEN [exit |-> FALSE, r2 |-> r2]
  ELSE IF IsAbs(o.value, os) THEN [exit |-> TRUE, r2 |-> r2]
  ELSE [exit |-> FALSE, r2 |-> [r2 EXCEPT ![o.key] = NormPath(o.value, os)]]

\* what one --options entry does: "exit", or the registry it leaves
OptionEffect(o, r2, os) ==
  IF ~o.hasEq THEN [exit |-> TRUE, r2 |-> r2]
  ELSE IF Upper(o.key) \notin DOMAIN r2 THEN [exit |-> FALSE, r2 |-> r2]
  ELSE IF IsAbs(o.value, os) THEN [exit |-> TRUE, r2 |-> r2]
  ELSE [exit |-> FALSE,
        r2 |-> [r2 EXCEPT ![Upper(o.key)] = NormPath(o.value, os)]]

\* main(): one turn of `for option in args.options`
ProcessOption ==
  /\ pc = "options" /\ ~exited
  /\ optIdx <= Len(args.options)
  /\ LET e == OptionEffect(args.options[optIdx], R2_PATH, plat)
     IN  /\ R2_PATH' = e.r2
         /\ IF e.exit THEN Exit(1) /\ optIdx' = optIdx
            ELSE optIdx' = optIdx + 1 /\ UNCHANGED <<pc, exited, exitCode>>
  /\ UNCHANGED <<args, plat, trace, dirs, files, proj, PATH_FMT, env, tmpl,
                 tree, step, run, hist>>

\* main(): PATH_FMT.update(R2_PATH), then build(args) is called
UpdatePathFmt ==
  /\ pc = "options" /\ ~exited
  /\ optIdx > Len(args.options)
  /\ PATH_FMT' = Update(PATH_FMT, R2_PATH)
  /\ pc' = "build"
  /\ UNCHANGED <<args, plat, exited, exitCode, trace, dirs, files, proj,
                 R2_PATH, env, tmpl, tree, optIdx, step, run, hist>>

\* main(): `if args.uninstall: os.system(sudo + 'make uninstall ...')`
Uninstall ==
  /\ pc = "built" /\ ~exited
  /\ trace' = IF args.uninstall THEN Append(trace, Event("make uninstall"))
              ELSE trace
  /\ pc' = "install"
  /\ UNCHANGED <<args, plat, exited, exitCode, dirs, files, proj, R2_PATH,
                 PATH_FMT, env, tmpl, tree, optIdx, step, run, hist>>

----------------------------------------------------------------------------
(* install(args) and win_dist(args).                                       *)

Entry(path, kind) == [path |-> path, kind |-> kind]

\* source trees a copytree of the manifest may find: empty, and one with
\* files and directories whose names the exclude patterns do and do not match
SourceTrees ==
  { {},
    { Entry(<<Makefile>>, "file"), Entry(<<MesonBuild>>, "file"),
      Entry(<<Dll>>, "dir"), Entry(<<Dll, <<"x">>>>, "file"),
      Entry(<<<<"d">>>>, "dir"), Entry(<<<<"d">>, Makefile>>, "file"),
      Entry(<<<<"d">>, <<"x">>>>, "file") } }

\* what a whole win_dist finds on disk: a file for every glob and source
\* trees with entries, or no file for any glob and empty source trees
DistInputs ==
  {[matched |-> (t # {}), t |-> t] : t \in SourceTrees}

\* the operations from index i on, until one raises
RECURSIVE RunOps(_, _, _, _, _, _, _)
RunOps(ops, i, d, f, fmt, matched, t) ==
  IF i > Len(ops) THEN Done(d, f)
  ELSE LET r == ExecOp(ops[i], d, f, fmt, matched, t)
       IN  IF ~r.ok THEN r
           ELSE RunOps(ops, i + 1, r.dirs, r.files, fmt, matched, t)

\* main(): `if args.install: install(args)`; on nt the whole of win_dist
Install ==
  /\ pc = "install" /\ ~exited
  /\ IF args.install = NoInstall \/ plat # "nt"
       THEN /\ pc' = "symstall"
            /\ UNCHANGED <<exited, exitCode, trace, dirs, files, PATH_FMT>>
       ELSE \E found \in DistInputs :
              LET fmt == DistPathFmt(PATH_FMT, args.install, args.dir)
                  r   == RunOps(Manifest(args.install, args.shared, args.webui),
                                1, dirs, files, fmt, found.matched, found.t)
              IN  /\ PATH_FMT' = fmt
                  /\ trace' = Append(trace, Event("win_dist"))
                  /\ dirs' = r.dirs /\ files' = r.files
                  /\ IF r.ok THEN pc' = "symstall" /\ UNCHANGED <<exited, exitCode>>
                     ELSE Exit(1)
  /\ UNCHANGED <<args, plat, proj, R2_PATH, env, tmpl, tree, optIdx, step,
                 run, hist>>

\* main(): `if args.symstall: os.system(sudo + 'make symstall ...')`, the end
Symstall ==
  /\ pc = "symstall" /\ ~exited
  /\ trace' = IF args.symstall THEN Append(trace, Event("make symstall"))
              ELSE trace
  /\ pc' = "done" /\ exited' = TRUE /\ exitCode' = 0
  /\ UNCHANGED <<args, plat, dirs, files, proj, R2_PATH, PATH_FMT, env, tmpl,
                 tree, optIdx, step, run, hist>>

\* win_dist(): builddir, PATH_FMT['DIST'], PATH_FMT['BUILDDIR']
DistBegin ==
  /\ pc = "win_dist" /\ ~exited
  /\ PATH_FMT' = DistPathFmt(PATH_FMT, args.install, args.dir)
  /\ step' = 1
  /\ pc' = "dist"
  /\ hist' = [hist EXCEPT !.dirs0 = dirs]
  /\ UNCHANGED <<args, plat, exited, exitCode, trace, dirs, files, proj,
                 R2_PATH, env, tmpl, tree, optIdx, run>>

\* win_dist() / win_dist_libr2(): the next call of the manifest
DistStep ==
  /\ pc = "dist" /\ ~exited
  /\ LET ops == Manifest(args.install, args.shared, args.webui)
     IN  /\ step <= Len(ops)
         /\ \E matched \in BOOLEAN, t \in SourceTrees :
              LET r == ExecOp(ops[step], dirs, files, PATH_FMT, matched, t)
              IN  /\ dirs' = r.dirs /\ files' = r.files
                  /\ trace' = Append(trace, Event(ops[step].op))
                  /\ IF ~r.ok THEN Exit(1) /\ step' = step
                     ELSE /\ step' = step + 1
                          /\ pc' = IF step = Len(ops) THEN "dist_done" ELSE "dist"
                          /\ UNCHANGED <<exited, exitCode>>
  /\ UNCHANGED <<args, plat, proj, R2_PATH, PATH_FMT, env, tmpl, tree, optIdx,
                 run, hist>>

----------------------------------------------------------------------------
(* The script run from the command line.                                   *)

\* --options lists of at most MaxOptions entries
OptionLists == SeqsUpTo(OptionEntries, MaxOptions)

Option(k, v) == [hasEq |-> TRUE, key |-> k, value |-> v]

\* --options lists of the runs where the loop is not the subject: none, an
\* override, an absolute value, an entry without "="
FewOptionLists ==
  {<<>>,
   <<Option("r2_libdir", <<"custom", "/", ".", "/", "lib">>)>>,
   <<Option("R2_DATDIR", <<"/", "abs">>)>>,
   <<NoEquals>>}

\* the command lines explored for main(): the flags main() itself reads
\* vary, those it only hands to build() and win_dist() keep their defaults
MainArgs(os) ==
  {ArgsRecord(alias, asan, project, FALSE, backend, FALSE, FALSE, NoPrefix, xp,
              pull, uninstall, symstall, FALSE, install, options) :
     alias \in BOOLEAN, asan \in {<<>>, <<"address">>}, project \in BOOLEAN,
     backend \in BACKENDS, xp \in BOOLEAN, pull \in BOOLEAN,
     uninstall \in BOOLEAN, symstall \in BOOLEAN,
     install \in InstallArgs(os), options \in FewOptionLists}

RootDirs == {ToPath(ROOT)}

Init ==
  /\ pc = "main"
  /\ plat \in {"nt", "posix"}
  /\ args \in MainArgs(plat)
  /\ exited = FALSE /\ exitCode = 0
  /\ trace = <<>>
  /\ \E found \in BOOLEAN, there \in BOOLEAN :
       /\ (there => plat = "nt" /\ args.install # NoInstall)
       /\ dirs = RootDirs
                  \cup (IF found THEN Ancestors(BuildDirPath) ELSE {})
                  \cup (IF there THEN Ancestors(ToPath(args.install)) ELSE {})
       /\ proj \in (IF found THEN FoundProjects ELSE {NoProjects})
  /\ files = {}
  /\ R2_PATH = DefaultR2Path
  /\ PATH_FMT = InitialPathFmt
  /\ env = NoEnv
  /\ tmpl = NoTmpl /\ tree = NoTree
  /\ optIdx = 0 /\ step = 0 /\ run = 1
  /\ hist = NoHist

Next ==
  \/ Startup
  \/ CheckArguments
  \/ ProcessOption
  \/ UpdatePathFmt
  \/ Configure
  \/ ReuseBuildDir
  \/ RunXpCompat
  \/ RunMsbuild
  \/ RunNinja
  \/ Uninstall
  \/ Install
  \/ Symstall

Spec == Init /\ [][Next]_vars

----------------------------------------------------------------------------
(* build() called on the same machine several times in a row, for every    *)
(* value of the arguments it reads.                                        *)

\* number of runs in a row explored
MaxRuns == 2

BuildArgs ==
  {ArgsRecord(FALSE, <<>>, project, release, backend, shared, local, prefix, xp,
              FALSE, FALSE, FALSE, webui, NoInstall, options) :
     project \in BOOLEAN, release \in BOOLEAN, backend \in BACKENDS,
     shared \in BOOLEAN, local \in BOOLEAN, prefix \in {NoPrefix, <<"pfx">>},
     xp \in BOOLEAN, webui \in BOOLEAN, options \in FewOptionLists}

\* the state in which main() calls build(args)
InitBuildFrom(argSet, projects) ==
  /\ pc = "build"
  /\ plat = "nt"
  /\ args \in argSet
  /\ exited = FALSE /\ exitCode = 0
  /\ trace = <<>>
  /\ \E found \in BOOLEAN :
       /\ dirs = RootDirs \cup (IF found THEN Ancestors(BuildDirPath) ELSE {})
       /\ proj \in (IF found THEN projects ELSE {NoProjects})
  /\ files = {}
  /\ R2_PATH = DefaultR2Path
  /\ PATH_FMT = Update(InitialPathFmt, DefaultR2Path)
  /\ env = NoEnv
  /\ tmpl = NoTmpl /\ tree = NoTree
  /\ optIdx = 1 /\ step = 0 /\ run = 1
  /\ hist = NoHist

\* the arguments of a process that is not running
NoArgs == ArgsRecord(FALSE, <<>>, FALSE, FALSE, "ninja", FALSE, FALSE, NoPrefix,
                     FALSE, FALSE, FALSE, FALSE, FALSE, NoInstall, <<>>)

\* the process is over (build() returned, or sys.exit): its arguments and
\* globals are gone, what it left on disk stays
ProcessEnds ==
  /\ pc \in {"built", "exit"}
  /\ run < MaxRuns
  /\ pc' = "ended"
  /\ args' = NoArgs
  /\ exited' = TRUE /\ exitCode' = exitCode
  /\ trace' = <<>>
  /\ hist' = [NoHist EXCEPT
                !.configuredBefore = hist.configuredBefore \/ hist.mesonOk,
                !.prevOptions = args.options,
                !.xp = hist.xp]
  /\ UNCHANGED <<plat, dirs, files, proj, R2_PATH, PATH_FMT, env, tmpl, tree,
                 optIdx, step, run>>

\* the script is started again on the same checkout and reaches build()
\* with a command line of argSet
NewRunWith(argSet) ==
  /\ pc = "ended"
  /\ run' = run + 1
  /\ args' \in argSet
  /\ pc' = "build"
  /\ exited' = FALSE /\ exitCode' = 0
  /\ UNCHANGED <<plat, trace, dirs, files, proj, R2_PATH, PATH_FMT, env, tmpl,
                 tree, optIdx, step, hist>>

InitBuild == InitBuildFrom(BuildArgs, FoundProjects)

NewRun == NewRunWith(BuildArgs)

NextBuild ==
  \/ Configure
  \/ ReuseBuildDir
  \/ RunXpCompat
  \/ RunMsbuild
  \/ RunNinja
  \/ ProcessEnds
  \/ NewRun

SpecBuild == InitBuild /\ [][NextBuild]_vars

----------------------------------------------------------------------------
(* The claims about build() and main().                                    *)

ToolNames == {"meson", "ninja", "msbuild"}

\* C1: build() invokes meson exactly when the build directory did not exist
\* as build() started, whatever the flags and options; a run that follows a
\* run whose configure succeeded never invokes meson.
C1_ConfigureOnlyWhenMissing ==
  /\ ~hist.started => Count(trace, "meson") = 0
  /\ hist.started =>
       Count(trace, "meson") = (IF hist.existed THEN 0 ELSE 1)
  /\ (hist.started /\ hist.configuredBefore) => Count(trace, "meson") = 0

\* a second run, after a run that configured, with other options: build()
\* has returned and meson was not invoked
C1_Witness ==
  /\ run = 2 /\ pc = "built"
  /\ hist.configuredBefore /\ hist.existed
  /\ args.options # hist.prevOptions /\ args.options # <<>>
  /\ Count(trace, "meson") = 0 /\ Count(trace, "ninja") = 1

\* C2: a refused flag combination (--project with ninja, --xp with ninja or
\* vs2019) ends the run with status 1 before any subprocess is spawned,
\* whatever the other flags (stated for the runs that do not stop at --alias).
C2_GuardBeforeSubprocess ==
  (BadFlags(args) /\ ~args.alias) =>
    /\ Events(trace) \cap Subprocesses = {}
    /\ pc \in {"main", "check", "exit"}
    /\ exited => exitCode = 1

\* C3: on nt, --install naming an existing path ends the run with status 1
\* before anything has changed the filesystem: until the argument check has
\* let the run through (optIdx = 0) no mutation is in the trace, and the run
\* does not get past the check (stated for the runs that do not stop at
\* --alias).
C3_ExistingInstallRejectedFirst ==
  (InstallExists(args, plat, dirs, files) /\ ~args.alias /\ optIdx = 0) =>
    /\ pc \in {"main", "check", "exit"}
    /\ Events(trace) \cap Mutations = {}
    /\ exited => exitCode = 1

\* C4: a non-zero status of meson, ninja or msbuild ends the run at once
\* with status 1: the failing invocation is the last event of the run, no
\* tool is invoked twice, and a run that reaches the end of main() has seen
\* only zero statuses.
C4_ToolFailureIsFatal ==
  /\ \A i \in 1..Len(trace) :
       (trace[i].ev \in ToolNames /\ trace[i].ret # 0) =>
         i = Len(trace) /\ exited /\ exitCode = 1 /\ pc = "exit"
  /\ \A name \in ToolNames : Count(trace, name) <= 1
  /\ pc = "done" =>
       /\ exitCode = 0
       /\ \A i \in 1..Len(trace) : trace[i].ev \in ToolNames => trace[i].ret = 0

\* msbuild fails after a successful configure in a run that asked for
\* uninstall, install and symstall: none of them has run
C4_Witness ==
  /\ exited /\ exitCode = 1
  /\ args.uninstall /\ args.symstall /\ args.install # NoInstall
  /\ Len(trace) = 2
  /\ trace[1].ev = "meson" /\ trace[1].ret = 0
  /\ trace[2].ev = "msbuild" /\ trace[2].ret # 0

\* C9: the backend dispatch of build().  With ninja: ninja once, neither
\* xp_compat nor msbuild.  Otherwise: never ninja, xp_compat iff the backend
\* is not vs2019 and --xp, msbuild iff not --project, xp_compat before
\* msbuild, and meson before all of them.  "Iff" is of a build() that
\* returns; a step that ends the run leaves the later ones out.
C9_BackendDispatch ==
  LET n(name) == Count(trace, name)
      wantXp  == args.backend # "ninja" /\ args.backend # "vs2019" /\ args.xp
      wantMs  == args.backend # "ninja" /\ ~args.project
  IN  /\ args.backend = "ninja" =>
           n("xp_compat") = 0 /\ n("msbuild") = 0 /\ n("ninja") <= 1
      /\ args.backend # "ninja" =>
           n("ninja") = 0 /\ n("xp_compat") <= 1 /\ n("msbuild") <= 1
      /\ n("xp_compat") > 0 => wantXp
      /\ n("msbuild") > 0 => wantMs /\ (wantXp => n("xp_compat") = 1)
      /\ \A i, j \in 1..Len(trace) :
           /\ trace[i].ev = "meson" => i = 1
           /\ (trace[i].ev = "xp_compat" /\ trace[j].ev = "msbuild") => i < j
      /\ pc = "built" =>
           /\ args.backend = "ninja" => n("ninja") = 1
           /\ args.backend # "ninja" =>
                /\ n("xp_compat") = 1 <=> wantXp
                /\ n("msbuild") = 1 <=> wantMs

\* configure, the patcher, then msbuild, and build() has returned
C9_Witness ==
  /\ pc = "built" /\ args.backend = "vs2017" /\ args.xp /\ ~args.project
  /\ Len(trace) = 3
  /\ trace[1].ev = "meson" /\ trace[2].ev = "xp_compat" /\ trace[3].ev = "msbuild"

----------------------------------------------------------------------------
(* main() up to the end of build(), for every --options list of at most    *)
(* MaxOptions entries.                                                     *)

OptionArgs ==
  {ArgsRecord(alias, asan, FALSE, FALSE, "ninja", FALSE, FALSE, NoPrefix, FALSE,
              pull, FALSE, FALSE, FALSE, NoInstall, options) :
     alias \in BOOLEAN, asan \in {<<>>, <<"address">>}, pull \in BOOLEAN,
     options \in OptionLists}

InitOptions ==
  /\ pc = "main"
  /\ plat \in {"nt", "posix"}
  /\ args \in OptionArgs
  /\ exited = FALSE /\ exitCode = 0
  /\ trace = <<>>
  /\ \E found \in BOOLEAN :
       dirs = RootDirs \cup (IF found THEN Ancestors(BuildDirPath) ELSE {})
  /\ files = {}
  /\ proj = NoProjects
  /\ R2_PATH = DefaultR2Path
  /\ PATH_FMT = InitialPathFmt
  /\ env = NoEnv
  /\ tmpl = NoTmpl /\ tree = NoTree
  /\ optIdx = 0 /\ step = 0 /\ run = 1
  /\ hist = NoHist

NextOptions ==
  \/ Startup
  \/ CheckArguments
  \/ ProcessOption
  \/ UpdatePathFmt
  \/ Configure
  \/ ReuseBuildDir
  \/ RunNinja

SpecOptions == InitOptions /\ [][NextOptions]_vars

\* the entry names a known category, and an absolute path for it
KnownAbsolute(o, os) ==
  o.hasEq /\ Upper(o.key) \in DOMAIN DefaultR2Path /\ IsAbs(o.value, os)

\* C5: once the first n entries of --options have been processed, every
\* category holds the normalised value of the last of them whose upper-cased
\* key is that category, and its default if there is none (so an entry
\* changes its own category only, and keys match in either case); an entry
\* custom/./lib for r2_libdir is stored as custom/lib (custom\lib on nt);
\* when some entry names a known category with an absolute path, build() is
\* never called and the run exits with status 1.
C5_OptionsFrameEffect ==
  LET opts == args.options
      n    == IF optIdx = 0 THEN 0 ELSE optIdx - 1
      last(cat) == {j \in 1..n : /\ opts[j].hasEq /\ Upper(opts[j].key) = cat
                                 /\ \A k \in (j + 1)..n :
                                      ~(opts[k].hasEq /\ Upper(opts[k].key) = cat)}
  IN  /\ \A cat \in DOMAIN DefaultR2Path :
           /\ last(cat) = {} => R2_PATH[cat] = DefaultR2Path[cat]
           /\ \A j \in last(cat) : R2_PATH[cat] = NormPath(opts[j].value, plat)
      /\ DOMAIN R2_PATH = DOMAIN DefaultR2Path
      /\ (n >= 1 /\ opts[n] = Option("r2_libdir", <<"custom", "/", ".", "/", "lib">>)) =>
           R2_PATH["R2_LIBDIR"] = (IF plat = "nt" THEN <<"custom", SEP, "lib">>
                                   ELSE <<"custom", "/", "lib">>)
      /\ \A j \in 1..n : ~KnownAbsolute(opts[j], plat)
      /\ hist.started => n = Len(opts)
      /\ (\E j \in 1..Len(opts) : KnownAbsolute(opts[j], plat)) =>
           /\ ~hist.started /\ Count(trace, "meson") = 0
           /\ pc \in {"main", "check", "options", "exit"}
           /\ (pc = "exit" /\ ~args.alias) => exitCode = 1

\* r2_libdir=custom/./lib then R2_DATDIR=/abs: the first entry has changed
\* the library category alone, the second has ended the run
C5_Witness ==
  /\ plat = "posix"
  /\ args.options = <<Option("r2_libdir", <<"custom", "/", ".", "/", "lib">>),
                      Option("R2_DATDIR", <<"/", "abs">>)>>
  /\ pc = "exit" /\ exitCode = 1 /\ optIdx = 2
  /\ R2_PATH = [DefaultR2Path EXCEPT !["R2_LIBDIR"] = <<"custom", "/", "lib">>]
  /\ ~hist.started

----------------------------------------------------------------------------
(* build() with --xp, run again and again on one build directory, for      *)
(* every toolset identifier of at most MaxIdLen characters.                *)

\* longest toolset identifier explored, before a suffix is added
MaxIdLen == 2

IdChars == {"v", "_", "x", "p"}

ToolsetIds ==
  LET base == SeqsUpTo(IdChars, MaxIdLen)
  IN  base \cup {b \o XpSuffix : b \in base}

\* REGEN.vcxproj: missing, without the element, or with any identifier; the
\* other project file: missing, or with an identifier that holds REGEN's or
\* not, patched or not
XpProjects ==
  {[n \in {"REGEN", "radare2"} |-> IF n = "REGEN" THEN r ELSE o] :
     r \in {AbsentFile, [present |-> TRUE, intact |-> FALSE, id |-> <<>>]}
             \cup {ProjectFile(id) : id \in ToolsetIds},
     o \in {AbsentFile, ProjectFile(<<"v">>), ProjectFile(<<"v">> \o XpSuffix),
            ProjectFile(<<"x", "v">>), ProjectFile(<<"p", "_", "x", "p">>)}}

XpArgs ==
  {ArgsRecord(FALSE, <<>>, TRUE, FALSE, backend, FALSE, FALSE, NoPrefix, TRUE,
              FALSE, FALSE, FALSE, FALSE, NoInstall, <<>>) :
     backend \in {"vs2015", "vs2017"}}

InitXp == InitBuildFrom(XpArgs, XpProjects)

NewRunXp == NewRunWith(XpArgs)

NextXp ==
  \/ Configure
  \/ ReuseBuildDir
  \/ RunXpCompat
  \/ ProcessEnds
  \/ NewRunXp

SpecXp == InitXp /\ [][NextXp]_vars

\* C6: an invocation of xp_compat that finds in REGEN.vcxproj an identifier
\* ending in _xp writes nothing (every project file is as before); the
\* invocation that follows one that patched finds the files as that one left
\* them and leaves them so: no file changes, no identifier gets the suffix
\* in both.
C6_XpCompatNoOpWhenPatched ==
  \A i \in 1..Len(hist.xp) :
    LET h == hist.xp[i]
        regen == h.before["REGEN"]
    IN  /\ (regen.present /\ regen.intact /\ EndsWith(regen.id, XpSuffix)) =>
             h.after = h.before /\ h.outcome = "skipped"
        /\ (i > 1 /\ hist.xp[i - 1].outcome = "patched") =>
             /\ h.before = hist.xp[i - 1].after
             /\ h.after = hist.xp[i - 1].after

\* two runs on one build directory: the first patched v to v_xp in both
\* files, the second found v_xp and skipped
C6_Witness ==
  /\ Len(hist.xp) = 2
  /\ hist.xp[1].outcome = "patched" /\ hist.xp[2].outcome = "skipped"
  /\ hist.xp[1].before["REGEN"].id = <<"v">>
  /\ proj["REGEN"].id = <<"v">> \o XpSuffix
  /\ proj["radare2"].id = <<"v">> \o XpSuffix

----------------------------------------------------------------------------
(* The resolver on its own: a template formatted again and again with one  *)
(* registry, for registries whose values are any text of at most MaxValLen *)
(* tokens, and for the destinations of the manifest under the registry     *)
(* win_dist uses.                                                          *)

\* longest registry value explored, in tokens
MaxValLen == 3
\* number of format passes applied
MaxPasses == 3

FmtTokens == {LB, RB, "A", "x"}

\* registries with the names A and B
SmallRegistries ==
  {[k \in {"A", "B"} |-> IF k = "A" THEN a ELSE b] :
     a \in SeqsUpTo(FmtTokens, MaxValLen), b \in {<<"x">>, P("A")}}

\* templates over those names: plain text, one field, two fields, a field
\* whose value has a field, doubled braces, a name that is not registered
SmallTemplates ==
  {<<"x">>, P("A"), P("B"), P("A") \o <<SEP>> \o P("B"), T("B", <<"x">>),
   <<LB, LB, "x", RB, RB>>, P("C")}

\* the destination templates of the manifest
ManifestDestinations ==
  UNION {{ManifestTable[k][i].dst : i \in {j \in 1..Len(ManifestTable[k]) :
                                            ManifestTable[k][j].op # "write"}} :
         k \in DOMAIN ManifestTable}

\* the registry of a run with the default categories that reaches win_dist
DistRegistries ==
  {DistPathFmt(Update(InitialPathFmt, DefaultR2Path), install, BUILDDIR) :
     install \in InstallRoots}

InitFmt ==
  /\ pc = "format"
  /\ \/ PATH_FMT \in SmallRegistries /\ tmpl \in {[orig |-> t, res |-> <<>>] : t \in SmallTemplates}
     \/ PATH_FMT \in DistRegistries
          /\ tmpl \in {[orig |-> t, res |-> <<>>] : t \in ManifestDestinations}
  /\ plat = "nt"
  /\ args = NoArgs
  /\ exited = FALSE /\ exitCode = 0
  /\ trace = <<>>
  /\ dirs = RootDirs /\ files = {}
  /\ proj = NoProjects
  /\ R2_PATH = DefaultR2Path
  /\ env = NoEnv
  /\ tree = NoTree
  /\ optIdx = 0 /\ step = 0 /\ run = 1
  /\ hist = NoHist

\* one more .format(PATH_FMT) on the result of the previous one
FormatPass ==
  /\ pc = "format"
  /\ Len(tmpl.res) < MaxPasses
  /\ tmpl.res # <<>> => tmpl.res[Len(tmpl.res)].ok
  /\ LET cur == IF tmpl.res = <<>> THEN tmpl.orig ELSE tmpl.res[Len(tmpl.res)].s
     IN  tmpl' = [tmpl EXCEPT !.res = Append(@, Format(cur, PATH_FMT))]
  /\ UNCHANGED <<pc, args, plat, exited, exitCode, trace, dirs, files, proj,
                 R2_PATH, PATH_FMT, env, tree, optIdx, step, run, hist>>

NextFmt == FormatPass

SpecFmt == InitFmt /\ [][NextFmt]_vars

\* the names of the replacement fields of a string
RECURSIVE FieldsFrom(_, _)
FieldsFrom(s, i) ==
  IF i > Len(s) THEN {}
  ELSE IF s[i] \in {LB, RB} /\ i + 1 <= Len(s) /\ s[i + 1] = s[i]
         THEN FieldsFrom(s, i + 2)
  ELSE IF s[i] = LB /\ i + 2 <= Len(s) /\ s[i + 2] = RB
         THEN {s[i + 1]} \cup FieldsFrom(s, i + 3)
  ELSE FieldsFrom(s, i + 1)

Fields(s) == FieldsFrom(s, 1)

\* the string is a format string: format accepts it when every name in it
\* is registered
Parses(s) == Format(s, [k \in {s[i] : i \in 1..Len(s)} |-> <<>>]).ok

\* the registries and templates C7 speaks of: the template is text and
\* fields as the program's templates are (no doubled brace), template and
\* values are format strings, their fields are registered, and a field of a
\* value names a value without fields
Resolvable(t, fmt) ==
  /\ Parses(t) /\ Fields(t) \subseteq DOMAIN fmt
  /\ \A i \in 1..(Len(t) - 1) : ~(t[i] \in {LB, RB} /\ t[i + 1] = t[i])
  /\ \A k \in DOMAIN fmt :
       /\ Parses(fmt[k])
       /\ \A fld \in Fields(fmt[k]) : fld \in DOMAIN fmt /\ Fields(fmt[fld]) = {}

\* C7: with such a registry, the first two passes succeed and leave no
\* replacement field, and a third pass returns the string of the second.
C7_TwoPassesResolve ==
  Resolvable(tmpl.orig, PATH_FMT) =>
    /\ Len(tmpl.res) >= 1 => tmpl.res[1].ok
    /\ Len(tmpl.res) >= 2 => tmpl.res[2].ok /\ Fields(tmpl.res[2].s) = {}
    /\ Len(tmpl.res) >= 3 => tmpl.res[3].ok /\ tmpl.res[3].s = tmpl.res[2].s

----------------------------------------------------------------------------
(* copytree on its own: one call on every source tree of at most           *)
(* MaxEntries entries and MaxDepth levels, with each of a few exclude      *)
(* tuples, on both platforms.                                              *)

\* most entries in a source tree, and its deepest level
MaxEntries == 3
MaxDepth == 2

\* "makefile": on nt the same name as Makefile for fnmatch, another file on
\* posix
LowerMakefile == NormCase(Makefile, "nt")

TreeNames == {Makefile, LowerMakefile, <<"x">>}

\* what can be added to tree t: a new name in the root or in a directory
NewEntries(t) ==
  {Entry(Append(d, nm), k) :
     d \in {<<>>} \cup {e.path : e \in {x \in t : x.kind = "dir" /\ Len(x.path) < MaxDepth}},
     nm \in TreeNames, k \in {"file", "dir"}}

\* the trees of S, and each with one more entry
Grow(S) ==
  S \cup UNION {{t \cup {e} : e \in {c \in NewEntries(t) :
                                      \A x \in t : x.path # c.path}} :
                t \in S}

RECURSIVE TreesUpTo(_)
TreesUpTo(n) == IF n = 0 THEN {{}} ELSE Grow(TreesUpTo(n - 1))

\* the source trees explored
SourceTreeSet == TreesUpTo(MaxEntries)

\* exclude tuples: none, those of the manifest, wildcards, one that does
\* not name Makefile
ExcludeSets ==
  {{}, {Makefile, MesonBuild}, {Makefile, MesonBuild, Dll}, {<<"M", "*">>},
   {<<"?">>}, {<<"*">>}, {Dll}}

TreeSrc == T("ROOT", <<"libr", SEP, "cons", SEP, "d">>)
TreeDst == TT("DIST", "R2_THEMES")

\* the registry of the call, and the path its destination resolves to
TreeRegistry ==
  DistPathFmt(Update(InitialPathFmt, DefaultR2Path), <<"inst">>, BUILDDIR)
TreeDstPath == ToPath(Format2(TreeDst, TreeRegistry).s)

InitTree ==
  /\ pc = "copytree"
  /\ plat \in {"nt", "posix"}
  /\ tree \in {[src |-> t, exclude |-> x, dst |-> <<>>, copied |-> FALSE] :
                 t \in SourceTreeSet, x \in ExcludeSets}
  /\ PATH_FMT = TreeRegistry
  /\ dirs \in {RootDirs, RootDirs \cup Ancestors(TreeDstPath)}
  /\ files = {}
  /\ args = NoArgs
  /\ exited = FALSE /\ exitCode = 0
  /\ trace = <<>>
  /\ proj = NoProjects
  /\ R2_PATH = DefaultR2Path
  /\ env = NoEnv
  /\ tmpl = NoTmpl
  /\ optIdx = 0 /\ step = 0 /\ run = 1
  /\ hist = NoHist

\* copytree(src, dst, exclude) on the source tree tree.src
CopyTreeCall ==
  /\ pc = "copytree" /\ ~exited
  /\ LET r == CopyTree(TreeSrc, TreeDst, tree.exclude, dirs, files, PATH_FMT,
                       tree.src, plat)
     IN  /\ dirs' = r.dirs /\ files' = r.files
         /\ tree' = [tree EXCEPT !.copied = r.ok,
                                 !.dst = ToPath(Format2(TreeDst, PATH_FMT).s)]
         /\ trace' = Append(trace, Event("copytree"))
         /\ IF r.ok THEN pc' = "copied" /\ UNCHANGED <<exited, exitCode>>
            ELSE Exit(1)
  /\ UNCHANGED <<args, plat, proj, R2_PATH, PATH_FMT, env, tmpl, optIdx, step,
                 run, hist>>

NextTree == CopyTreeCall

SpecTree == InitTree /\ [][NextTree]_vars

\* C8: after a copytree whose exclude tuple has a pattern matching
\* "Makefile", nothing below the destination is named Makefile, at any
\* depth; and after any copytree, a source entry such that neither its name
\* nor the name of a directory above it matches an exclude pattern is in the
\* destination at the same relative path, as a file or directory as it was.
C8_ExcludedNeverCopied ==
  tree.copied =>
    /\ (\E pat \in tree.exclude : FnMatch(Makefile, pat)) =>
         \A q \in dirs \cup files :
           IsPrefix(tree.dst, q) =>
             \A i \in (Len(tree.dst) + 1)..Len(q) : q[i] # Makefile
    /\ \A e \in tree.src :
         (\A i \in 1..Len(e.path) : ~Ignored(e.path[i], tree.exclude, plat)) =>
           tree.dst \o e.path \in (IF e.kind = "dir" THEN dirs ELSE files)
    /\ tree.dst \in dirs

\* a tree with a Makefile in a directory that is copied: the directory and
\* its other file are in the destination, the Makefile is not
C8_Witness ==
  /\ tree.copied /\ plat = "posix"
  /\ tree.exclude = {Makefile, MesonBuild}
  /\ tree.src = {Entry(<<<<"x">>>>, "dir"), Entry(<<<<"x">>, Makefile>>, "file"),
                 Entry(<<<<"x">>, LowerMakefile>>, "file")}
  /\ tree.dst \o <<<<"x">>>> \in dirs
  /\ tree.dst \o <<<<"x">>, LowerMakefile>> \in files
  /\ tree.dst \o <<<<"x">>, Makefile>> \notin files

----------------------------------------------------------------------------
(* win_dist on its own, one manifest call at a time, started on an install *)
(* root that does not exist, with the default registry.                    *)

DistArgs ==
  {ArgsRecord(FALSE, <<>>, FALSE, FALSE, "vs2017", shared, FALSE, NoPrefix,
              FALSE, FALSE, FALSE, FALSE, webui, install, <<>>) :
     shared \in BOOLEAN, webui \in BOOLEAN, install \in InstallRoots}

InitDist ==
  /\ pc = "win_dist"
  /\ plat = "nt"
  /\ args \in DistArgs
  /\ exited = FALSE /\ exitCode = 0
  /\ trace = <<>>
  /\ dirs = RootDirs \cup Ancestors(BuildDirPath)
  /\ files = {}
  /\ proj = NoProjects
  /\ R2_PATH = DefaultR2Path
  /\ PATH_FMT = Update(InitialPathFmt, DefaultR2Path)
  /\ env = NoEnv
  /\ tmpl = NoTmpl /\ tree = NoTree
  /\ optIdx = 1 /\ step = 0 /\ run = 1
  /\ hist = NoHist

NextDist ==
  \/ DistBegin
  \/ DistStep

SpecDist == InitDist /\ [][NextDist]_vars

\* the directory a copy to path q puts its file in
TargetDir(q, d) == IF q \in d THEN q ELSE Parent(q)

\* the manifest call o can run on directories d and files f: a makedirs or
\* copytree names a path that is not there, a copy or the launcher write
\* goes to a directory this run has created
Ready(o, d, f, fmt, d0) ==
  LET r == Format2(o.dst, fmt)
      q == ToPath(IF o.op = "write" THEN o.dst ELSE r.s)
  IN  CASE o.op \in {"makedirs", "copytree"} -> r.ok /\ q \notin d \cup f
        [] o.op = "copy"  -> r.ok /\ TargetDir(q, d) \in d \ d0
        [] o.op = "write" -> Parent(q) \in d \ d0

\* C10: while win_dist runs, the call it is about to make can run, and no
\* call has failed.
C10_ManifestOrdered ==
  /\ ~exited
  /\ pc = "dist" =>
       Ready(Manifest(args.install, args.shared, args.webui)[step],
             dirs, files, PATH_FMT, hist.dirs0)

====
